---- MODULE Spec2Model ----
(***************************************************************************)
(* Ingredient-ontology build and patch scripts:                            *)
(*   scripts/build-ingredient-ontology.py                                  *)
(*   scripts/patch-ontology-next100.py                                     *)
(*   scripts/patch-ontology-top200.py                                      *)
(*                                                                         *)
(* A Python str is a sequence of code points (Seq(Nat)); a Python value    *)
(* of unknown type (a JSON scalar) is a tagged record, see PyNone.         *)
(***************************************************************************)
EXTENDS Integers, Sequences, FiniteSets, TLC

\* ---------------------------------------------------------------- bounds
MaxBuilds == 1
MaxPatches == 3
MaxRecs == 2
MaxPairs == 2
MaxNew == 2
MaxLen == 4

\* ------------------------------------------------------- Python strings
HYPHEN == 45

\* str.lower() on one code point (ASCII and Latin-1 upper-case letters)
Lower(c) ==
  IF (c >= 65 /\ c <= 90) \/ (c >= 192 /\ c <= 222 /\ c # 215)
  THEN c + 32 ELSE c

RECURSIVE lower(_)
lower(s) == IF s = <<>> THEN <<>> ELSE <<Lower(Head(s))>> \o lower(Tail(s))

\* str.isspace() / regex \s on one code point
IsSpace(c) == c \in {9, 10, 11, 12, 13, 28, 29, 30, 31, 32, 133, 160}

RECURSIVE lstrip(_)
lstrip(s) == IF s # <<>> /\ IsSpace(Head(s)) THEN lstrip(Tail(s)) ELSE s

RECURSIVE rstrip(_)
rstrip(s) ==
  IF s # <<>> /\ IsSpace(s[Len(s)]) THEN rstrip(SubSeq(s, 1, Len(s) - 1)) ELSE s

\* str.strip()
strip(s) == rstrip(lstrip(s))

RECURSIVE lstrip_hyphen(_)
lstrip_hyphen(s) ==
  IF s # <<>> /\ Head(s) = HYPHEN THEN lstrip_hyphen(Tail(s)) ELSE s

RECURSIVE rstrip_hyphen(_)
rstrip_hyphen(s) ==
  IF s # <<>> /\ s[Len(s)] = HYPHEN
  THEN rstrip_hyphen(SubSeq(s, 1, Len(s) - 1)) ELSE s

\* str.strip("-")
strip_hyphen(s) == rstrip_hyphen(lstrip_hyphen(s))

IsAlnum(c) == (c >= 97 /\ c <= 122) \/ (c >= 48 /\ c <= 57)

\* re.sub(r"[^a-z0-9\s-]", "", s)
KeepSlugChar(c) == IsAlnum(c) \/ IsSpace(c) \/ c = HYPHEN
sub_non_slug(s) == SelectSeq(s, KeepSlugChar)

\* re.sub(r"[\s]+", "-", s)
RECURSIVE sub_spaces(_)
sub_spaces(s) ==
  IF s = <<>> THEN <<>>
  ELSE IF IsSpace(Head(s)) THEN <<HYPHEN>> \o sub_spaces(lstrip(s))
  ELSE <<Head(s)>> \o sub_spaces(Tail(s))

\* variant: the step that collapses repeated hyphens left out
sub_hyphens_skipped(s) == s

\* re.sub(r"-+", "-", s)
RECURSIVE sub_hyphens(_)
sub_hyphens(s) ==
  IF s = <<>> THEN <<>>
  ELSE IF Head(s) = HYPHEN THEN <<HYPHEN>> \o sub_hyphens(lstrip_hyphen(s))
  ELSE <<Head(s)>> \o sub_hyphens(Tail(s))

\* variant: the pieces are taken as split, nothing deleted
sub_non_alnum_skipped(t) == t

\* re.sub(r"[^a-z0-9]", "", t)
sub_non_alnum(t) == SelectSeq(t, IsAlnum)

\* str.split(): the maximal runs of non-whitespace, in order
RECURSIVE Word(_)
Word(s) == IF s = <<>> \/ IsSpace(Head(s)) THEN <<>> ELSE <<Head(s)>> \o Word(Tail(s))

RECURSIVE split(_)
split(s) ==
  LET t == lstrip(s) IN
  IF t = <<>> THEN <<>>
  ELSE LET w == Word(t) IN <<w>> \o split(SubSeq(t, Len(w) + 1, Len(t)))

\* str.endswith(suf)
endswith(s, suf) ==
  Len(suf) <= Len(s) /\ SubSeq(s, Len(s) - Len(suf) + 1, Len(s)) = suf

\* Python's < on str: lexicographic by code point
RECURSIVE StrLess(_, _)
StrLess(a, b) ==
  IF b = <<>> THEN FALSE
  ELSE IF a = <<>> THEN TRUE
  ELSE IF Head(a) # Head(b) THEN Head(a) < Head(b)
  ELSE StrLess(Tail(a), Tail(b))

\* sorted(S) of a set of str
RECURSIVE sorted(_)
sorted(S) ==
  IF S = {} THEN <<>>
  ELSE LET m == CHOOSE x \in S : \A y \in S \ {x} : StrLess(x, y)
       IN <<m>> \o sorted(S \ {m})

\* ------------------------------------------------------ modifier lexicons
COLOR_WORDS ==
  { <<114, 101, 100>>,                                          \* "red"
    <<103, 114, 101, 101, 110>>,                                \* "green"
    <<121, 101, 108, 108, 111, 119>>,                           \* "yellow"
    <<111, 114, 97, 110, 103, 101>>,                            \* "orange"
    <<112, 117, 114, 112, 108, 101>>,                           \* "purple"
    <<119, 104, 105, 116, 101>>,                                \* "white"
    <<98, 108, 97, 99, 107>>,                                   \* "black"
    <<98, 114, 111, 119, 110>>,                                 \* "brown"
    <<103, 111, 108, 100, 101, 110>>                            \* "golden"
  }

FORM_WORDS ==
  { <<114, 97, 119>>,                                           \* "raw"
    <<99, 111, 111, 107, 101, 100>>,                            \* "cooked"
    <<100, 114, 105, 101, 100>>,                                \* "dried"
    <<103, 114, 111, 117, 110, 100>>,                           \* "ground"
    <<102, 114, 101, 115, 104>>,                                \* "fresh"
    <<102, 114, 111, 122, 101, 110>>,                           \* "frozen"
    <<99, 97, 110, 110, 101, 100>>,                             \* "canned"
    <<119, 104, 111, 108, 101>>,                                \* "whole"
    <<112, 111, 119, 100, 101, 114, 101, 100>>                  \* "powdered"
  }

PREP_WORDS ==
  { <<99, 104, 111, 112, 112, 101, 100>>,                       \* "chopped"
    <<100, 105, 99, 101, 100>>,                                 \* "diced"
    <<109, 105, 110, 99, 101, 100>>,                            \* "minced"
    <<115, 108, 105, 99, 101, 100>>,                            \* "sliced"
    <<115, 104, 114, 101, 100, 100, 101, 100>>,                 \* "shredded"
    <<112, 101, 101, 108, 101, 100>>,                           \* "peeled"
    <<115, 101, 101, 100, 101, 100>>,                           \* "seeded"
    <<103, 114, 97, 116, 101, 100>>,                            \* "grated"
    <<99, 114, 117, 115, 104, 101, 100>>,                       \* "crushed"
    <<114, 111, 97, 115, 116, 101, 100>>,                       \* "roasted"
    <<116, 111, 97, 115, 116, 101, 100>>,                       \* "toasted"
    <<115, 109, 111, 107, 101, 100>>,                           \* "smoked"
    <<98, 108, 97, 110, 99, 104, 101, 100>>,                    \* "blanched"
    <<115, 97, 117, 116, 101, 101, 100>>,                       \* "sauteed"
    <<109, 101, 108, 116, 101, 100>>,                           \* "melted"
    <<115, 111, 102, 116, 101, 110, 101, 100>>,                 \* "softened"
    <<106, 117, 108, 105, 101, 110, 110, 101, 100>>,            \* "julienned"
    <<99, 117, 98, 101, 100>>,                                  \* "cubed"
    <<109, 97, 115, 104, 101, 100>>,                            \* "mashed"
    <<112, 117, 114, 101, 101, 100>>                            \* "pureed"
  }

SIZE_WORDS ==
  { <<115, 109, 97, 108, 108>>,                                 \* "small"
    <<109, 101, 100, 105, 117, 109>>,                           \* "medium"
    <<108, 97, 114, 103, 101>>,                                 \* "large"
    <<116, 104, 105, 110>>,                                     \* "thin"
    <<116, 104, 105, 99, 107>>,                                 \* "thick"
    <<98, 97, 98, 121>>,                                        \* "baby"
    <<109, 105, 110, 105>>                                      \* "mini"
  }

\* ------------------------------------------------------------ slugify
slugify(text) ==
  LET s0 == strip(lower(text))
      s1 == sub_non_slug(s0)
      s2 == sub_spaces(s1)
      s3 == sub_hyphens(s2)
  IN strip_hyphen(s3)

\* ------------------------------------------------------- derive_tokens
RECURSIVE FormTokens(_)
FormTokens(words) ==
  IF words = <<>> THEN {}
  ELSE LET cleaned == sub_non_alnum(Head(words)) IN
       (IF cleaned # <<>> /\ Len(cleaned) >= 2 THEN {cleaned} ELSE {})
         \cup FormTokens(Tail(words))

RECURSIVE token_set(_)
token_set(surface_forms) ==
  IF surface_forms = <<>> THEN {}
  ELSE FormTokens(split(lower(Head(surface_forms))))
         \cup token_set(Tail(surface_forms))

derive_tokens(surface_forms) == sorted(token_set(surface_forms))

\* ---------------------------------------------------- derive_modifiers
InColor(t) == t \in COLOR_WORDS
InForm(t) == t \in FORM_WORDS
InPrep(t) == t \in PREP_WORDS
InSize(t) == t \in SIZE_WORDS

derive_modifiers(tokens) ==
  [ color  |-> SelectSeq(tokens, InColor),
    form   |-> SelectSeq(tokens, InForm),
    prep   |-> SelectSeq(tokens, InPrep),
    size   |-> SelectSeq(tokens, InSize),
    origin |-> <<>> ]

\* --------------------------------------------- slug_to_equivalence_class
suffixes ==
  << <<45, 114, 97, 119>>,                                      \* "-raw"
    <<45, 99, 111, 111, 107, 101, 100>>,                        \* "-cooked"
    <<45, 102, 114, 111, 122, 101, 110>>,                       \* "-frozen"
    <<45, 99, 97, 110, 110, 101, 100>>,                         \* "-canned"
    <<45, 112, 101, 101, 108, 101, 100>>,                       \* "-peeled"
    <<45, 115, 101, 101, 100, 101, 100>>,                       \* "-seeded"
    <<45, 98, 111, 110, 101, 108, 101, 115, 115>>,              \* "-boneless"
    <<45, 115, 107, 105, 110, 108, 101, 115, 115>>,             \* "-skinless"
    <<45, 100, 114, 105, 101, 100>>,                            \* "-dried"
    <<45, 103, 114, 111, 117, 110, 100>>,                       \* "-ground"
    <<45, 102, 114, 101, 115, 104>>,                            \* "-fresh"
    <<45, 115, 109, 111, 107, 101, 100>>,                       \* "-smoked"
    <<45, 114, 111, 97, 115, 116, 101, 100>>,                   \* "-roasted"
    <<45, 116, 111, 97, 115, 116, 101, 100>>,                   \* "-toasted"
    <<45, 119, 104, 111, 108, 101>>,                            \* "-whole"
    <<45, 115, 108, 105, 99, 101, 100>>,                        \* "-sliced"
    <<45, 100, 105, 99, 101, 100>>,                             \* "-diced"
    <<45, 109, 105, 110, 99, 101, 100>>,                        \* "-minced"
    <<45, 99, 104, 111, 112, 112, 101, 100>>,                   \* "-chopped"
    <<45, 115, 104, 114, 101, 100, 100, 101, 100>>,             \* "-shredded"
    <<45, 99, 114, 117, 115, 104, 101, 100>>                    \* "-crushed"
  >>

\* the for loop from suffix number i on, base being the current remainder
RECURSIVE StripFrom(_, _)
StripFrom(base, i) ==
  IF i > Len(suffixes) THEN base
  ELSE IF endswith(base, suffixes[i])
       THEN StripFrom(SubSeq(base, 1, Len(base) - Len(suffixes[i])), i + 1)
       ELSE StripFrom(base, i + 1)

\* variant: the loop with a break after the first suffix stripped
RECURSIVE StripOnce(_, _)
StripOnce(base, i) ==
  IF i > Len(suffixes) THEN base
  ELSE IF endswith(base, suffixes[i])
  THEN SubSeq(base, 1, Len(base) - Len(suffixes[i]))
  ELSE StripOnce(base, i + 1)

slug_to_equivalence_class_break(slug) == StripOnce(slug, 1)

slug_to_equivalence_class(slug) == StripFrom(slug, 1)

\* --------------------------------------------------------- dedup_ordered
\* the loop over items, with the set seen and the list result so far
RECURSIVE DedupLoop(_, _, _)
DedupLoop(items, seen, result) ==
  IF items = <<>> THEN result
  ELSE LET item == Head(items)
           key  == strip(lower(item))
       IN IF key # <<>> /\ key \notin seen
          THEN DedupLoop(Tail(items), seen \cup {key}, Append(result, strip(item)))
          ELSE DedupLoop(Tail(items), seen, result)

\* variant: the key is item.strip(), without lower()
RECURSIVE DedupLoopExact(_, _, _)
DedupLoopExact(items, seen, result) ==
  IF items = <<>> THEN result
  ELSE LET item == Head(items)
           key  == strip(item)
       IN IF key # <<>> /\ key \notin seen
          THEN DedupLoopExact(Tail(items), seen \cup {key}, Append(result, strip(item)))
          ELSE DedupLoopExact(Tail(items), seen, result)

dedup_ordered_case_sensitive(items) == DedupLoopExact(items, {}, <<>>)

dedup_ordered(items) == DedupLoop(items, {}, <<>>)

\* ------------------------------------------------------- JSON scalars
\* a JSON value of unknown type: t is its Python type, n its int value,
\* s its str value
PyNone == [t |-> "none", n |-> 0, s |-> <<>>]
PyInt(k) == [t |-> "int", n |-> k, s |-> <<>>]
PyStr(x) == [t |-> "str", n |-> 0, s |-> x]
\* True and False: bool is a subclass of int, with True == 1 and False == 0
PyBool(b) == [t |-> "bool", n |-> IF b THEN 1 ELSE 0, s |-> <<>>]
PyOther == [t |-> "other", n |-> 0, s |-> <<>>]

\* truth value of an Optional[int]
Truthy(v) == v.t \in {"int", "bool"} /\ v.n # 0

IsDigit(c) == c >= 48 /\ c <= 57

RECURSIVE DigitsValue(_, _)
DigitsValue(s, acc) ==
  IF s = <<>> THEN acc ELSE DigitsValue(Tail(s), 10 * acc + (Head(s) - 48))

\* int(val) of a str: optional surrounding whitespace, optional sign,
\* decimal digits; ok = FALSE is ValueError
int_of_str(val) ==
  LET s0   == strip(val)
      neg  == s0 # <<>> /\ Head(s0) = 45
      sgn  == s0 # <<>> /\ Head(s0) \in {43, 45}
      digs == IF sgn THEN Tail(s0) ELSE s0
  IN IF digs # <<>> /\ \A i \in 1..Len(digs) : IsDigit(digs[i])
     THEN [ok |-> TRUE,
           n  |-> IF neg THEN 0 - DigitsValue(digs, 0) ELSE DigitsValue(digs, 0)]
     ELSE [ok |-> FALSE, n |-> 0]

normalize_fdc_id(val) ==
  IF val.t = "none" THEN PyNone
  ELSE IF val.t \in {"int", "bool"} THEN (IF val.n > 0 THEN val ELSE PyNone)
  ELSE IF val.t = "str"
       THEN LET p == int_of_str(val.s) IN
            IF p.ok THEN (IF p.n > 0 THEN PyInt(p.n) ELSE PyNone) ELSE PyNone
  ELSE PyNone

\* --------------------------------------------------- dict keyed by slug
\* a dict is the sequence of its values in insertion order; every value
\* carries its key in the field slug
dict_keys(d) == {d[i].slug : i \in 1..Len(d)}
dict_pos(d, k) == CHOOSE i \in 1..Len(d) : d[i].slug = k
dict_get(d, k) == d[dict_pos(d, k)]
\* variant: a key already in the dict keeps its value
dict_set_keep_first(d, v) ==
  IF v.slug \in dict_keys(d) THEN d ELSE Append(d, v)

dict_set(d, v) ==
  IF v.slug \in dict_keys(d) THEN [d EXCEPT ![dict_pos(d, v.slug)] = v]
  ELSE Append(d, v)

\* --------------------------------------------------------------- load_s1
\* item.get("canonical_name", name) reads has_canonical_name;
\* item.get("synonyms", []) of an absent key is <<>>;
\* item.get("fdc_id") of an absent key is PyNone
\* variant: surface forms built as [name, display] + synonyms
load_s1_item_name_first(item) ==
  LET name    == item.normalized_name
      slug    == slugify(name)
      display == IF item.has_canonical_name THEN item.canonical_name ELSE name
  IN [ slug         |-> slug,
       displayName  |-> display,
       surfaceForms |-> dedup_ordered(<<name, display>> \o item.synonyms),
       fdcId        |-> normalize_fdc_id(item.fdc_id) ]

load_s1_item(item) ==
  LET name    == item.normalized_name
      slug    == slugify(name)
      display == IF item.has_canonical_name THEN item.canonical_name ELSE name
  IN [ slug         |-> slug,
       displayName  |-> display,
       surfaceForms |-> dedup_ordered(<<display, name>> \o item.synonyms),
       fdcId        |-> normalize_fdc_id(item.fdc_id) ]

RECURSIVE load_s1_loop(_, _)
load_s1_loop(raw, entries) ==
  IF raw = <<>> THEN entries
  ELSE load_s1_loop(Tail(raw), dict_set(entries, load_s1_item(Head(raw))))

load_s1(raw) == load_s1_loop(raw, <<>>)

\* --------------------------------------------------------------- load_s2
load_s2_item(item) ==
  [ slug         |-> item.slug,
    displayName  |-> item.display_name,
    surfaceForms |-> dedup_ordered(<<item.display_name>> \o item.synonym_array),
    fdcId        |-> normalize_fdc_id(item.fdc_id) ]

RECURSIVE load_s2_loop(_, _)
load_s2_loop(raw, entries) ==
  IF raw = <<>> THEN entries
  ELSE load_s2_loop(Tail(raw), dict_set(entries, load_s2_item(Head(raw))))

load_s2(raw) == load_s2_loop(raw, <<>>)

\* --------------------------------------------------------- merge_entries
\* variant: s1's displayName and fdcId take priority over s2's
merge_one_prefer_s1(s1d, s2d, slug) ==
  LET e1 == IF slug \in dict_keys(s1d) THEN dict_get(s1d, slug)
            ELSE dict_get(s2d, slug)
      e2 == IF slug \in dict_keys(s2d) THEN dict_get(s2d, slug) ELSE e1
  IN [ slug         |-> slug,
       displayName  |-> e1.displayName,
       surfaceForms |-> IF slug \in dict_keys(s1d) /\ slug \in dict_keys(s2d)
                        THEN dedup_ordered(e2.surfaceForms \o e1.surfaceForms)
                        ELSE e1.surfaceForms,
       fdcId        |-> IF Truthy(e1.fdcId) THEN e1.fdcId ELSE e2.fdcId ]

merge_one(s1d, s2d, slug) ==
  LET in1 == slug \in dict_keys(s1d)
      in2 == slug \in dict_keys(s2d)
  IN IF in1 /\ in2
     THEN LET e1 == dict_get(s1d, slug)
              e2 == dict_get(s2d, slug)
          IN [ slug         |-> slug,
               displayName  |-> e2.displayName,
               surfaceForms |-> dedup_ordered(e2.surfaceForms \o e1.surfaceForms),
               fdcId        |-> IF Truthy(e2.fdcId) THEN e2.fdcId ELSE e1.fdcId ]
     ELSE IF in2
     THEN LET e2 == dict_get(s2d, slug)
          IN [ slug         |-> slug,
               displayName  |-> e2.displayName,
               surfaceForms |-> e2.surfaceForms,
               fdcId        |-> e2.fdcId ]
     ELSE LET e1 == dict_get(s1d, slug)
          IN [ slug         |-> slug,
               displayName  |-> e1.displayName,
               surfaceForms |-> e1.surfaceForms,
               fdcId        |-> e1.fdcId ]

RECURSIVE merge_loop(_, _, _)
merge_loop(s1d, s2d, all_slugs) ==
  IF all_slugs = <<>> THEN <<>>
  ELSE <<merge_one(s1d, s2d, Head(all_slugs))>>
         \o merge_loop(s1d, s2d, Tail(all_slugs))

all_slugs_of(s1d, s2d) == sorted(dict_keys(s1d) \cup dict_keys(s2d))

merge_entries(s1d, s2d) == merge_loop(s1d, s2d, all_slugs_of(s1d, s2d))

\* ---------------------------------------------------------- enrich_entry
EmptyTaxonomy ==
  [group |-> PyNone, family |-> PyNone, genus |-> PyNone, species |-> PyNone]

\* variant: the entry is filed under its equivalence class
enrich_entry_reslugged(raw) ==
  LET tokens == derive_tokens(raw.surfaceForms) IN
  [ slug             |-> slug_to_equivalence_class(raw.slug),
    displayName      |-> raw.displayName,
    surfaceForms     |-> raw.surfaceForms,
    tokens           |-> tokens,
    modifiers        |-> derive_modifiers(tokens),
    aliases          |-> <<>>,
    fdc              |-> [fdcId |-> raw.fdcId, dataType |-> PyNone,
                          description |-> PyNone],
    equivalenceClass |-> slug_to_equivalence_class(raw.slug),
    taxonomy         |-> EmptyTaxonomy,
    substitutions    |-> <<>> ]

enrich_entry(raw) ==
  LET tokens == derive_tokens(raw.surfaceForms) IN
  [ slug             |-> raw.slug,
    displayName      |-> raw.displayName,
    surfaceForms     |-> raw.surfaceForms,
    tokens           |-> tokens,
    modifiers        |-> derive_modifiers(tokens),
    aliases          |-> <<>>,
    fdc              |-> [fdcId |-> raw.fdcId, dataType |-> PyNone,
                          description |-> PyNone],
    equivalenceClass |-> slug_to_equivalence_class(raw.slug),
    taxonomy         |-> EmptyTaxonomy,
    substitutions    |-> <<>> ]

RECURSIVE enrich_all(_)
enrich_all(m) ==
  IF m = <<>> THEN <<>> ELSE <<enrich_entry(Head(m))>> \o enrich_all(Tail(m))

\* ------------------------------------- patch scripts: enrich_new_entry
PATCH_PREP_WORDS ==
  { <<99, 104, 111, 112, 112, 101, 100>>,                       \* "chopped"
    <<100, 105, 99, 101, 100>>,                                 \* "diced"
    <<109, 105, 110, 99, 101, 100>>,                            \* "minced"
    <<115, 108, 105, 99, 101, 100>>,                            \* "sliced"
    <<115, 104, 114, 101, 100, 100, 101, 100>>,                 \* "shredded"
    <<112, 101, 101, 108, 101, 100>>,                           \* "peeled"
    <<115, 101, 101, 100, 101, 100>>,                           \* "seeded"
    <<103, 114, 97, 116, 101, 100>>,                            \* "grated"
    <<99, 114, 117, 115, 104, 101, 100>>,                       \* "crushed"
    <<114, 111, 97, 115, 116, 101, 100>>,                       \* "roasted"
    <<116, 111, 97, 115, 116, 101, 100>>,                       \* "toasted"
    <<115, 109, 111, 107, 101, 100>>,                           \* "smoked"
    <<109, 101, 108, 116, 101, 100>>,                           \* "melted"
    <<115, 111, 102, 116, 101, 110, 101, 100>>                  \* "softened"
  }

InPatchPrep(t) == t \in PATCH_PREP_WORDS

\* raw.get("equivalenceClass", raw["slug"]) reads has_equivalenceClass
enrich_new_entry(raw) ==
  LET sorted_tokens == sorted(token_set(raw.surfaceForms)) IN
  [ slug             |-> raw.slug,
    displayName      |-> raw.displayName,
    surfaceForms     |-> raw.surfaceForms,
    tokens           |-> sorted_tokens,
    modifiers        |-> [ color  |-> SelectSeq(sorted_tokens, InColor),
                           form   |-> SelectSeq(sorted_tokens, InForm),
                           prep   |-> SelectSeq(sorted_tokens, InPatchPrep),
                           size   |-> SelectSeq(sorted_tokens, InSize),
                           origin |-> <<>> ],
    aliases          |-> <<>>,
    fdc              |-> raw.fdc,
    equivalenceClass |-> IF raw.has_equivalenceClass THEN raw.equivalenceClass
                         ELSE raw.slug,
    taxonomy         |-> EmptyTaxonomy,
    substitutions    |-> <<>> ]

\* ------------------------------------------------- patch scripts: main
\* slug_index = {e["slug"]: e for e in ontology}: every slug refers to an
\* entry object of the list, here by its position (the last one wins)
build_slug_index(onto) ==
  [k \in {onto[i].slug : i \in 1..Len(onto)} |->
     CHOOSE i \in 1..Len(onto) :
       onto[i].slug = k /\ \A j \in (i + 1)..Len(onto) : onto[j].slug # k]

\* variant: existing = set(entry["surfaceForms"]), without lower()
exact_set(forms) == {forms[i] : i \in 1..Len(forms)}

lower_set(forms) == {lower(forms[i]) : i \in 1..Len(forms)}

\* variant: every form is appended, the membership test left out
append_new_forms_unconditional(surfaceForms, existing, new_forms) ==
  surfaceForms \o new_forms

\* for form in new_forms: append it unless its lower() is in existing
RECURSIVE append_new_forms(_, _, _)
append_new_forms(surfaceForms, existing, new_forms) ==
  IF new_forms = <<>> THEN surfaceForms
  ELSE LET form == Head(new_forms) IN
       IF lower(form) \notin existing
       THEN append_new_forms(Append(surfaceForms, form),
                             existing \cup {lower(form)}, Tail(new_forms))
       ELSE append_new_forms(surfaceForms, existing, Tail(new_forms))

\* variant: the tokens are derived again from the grown surfaceForms
patch_entry_reenrich(entry, new_forms) ==
  LET forms  == append_new_forms(entry.surfaceForms,
                                 lower_set(entry.surfaceForms), new_forms)
      tokens == sorted(token_set(forms))
  IN [entry EXCEPT !.surfaceForms = forms, !.tokens = tokens]

patch_entry(entry, new_forms) ==
  [entry EXCEPT !.surfaceForms =
     append_new_forms(entry.surfaceForms, lower_set(entry.surfaceForms), new_forms)]

\* variant: the loop is left at the first slug that is not in slug_index
RECURSIVE patch_surface_forms_abort(_, _, _)
patch_surface_forms_abort(onto, index, pairs) ==
  IF pairs = <<>> THEN onto
  ELSE LET slug == Head(pairs)[1]
           new_forms == Head(pairs)[2]
       IN IF slug \in DOMAIN index
          THEN patch_surface_forms_abort(
                 [onto EXCEPT ![index[slug]] = patch_entry(onto[index[slug]], new_forms)],
                 index, Tail(pairs))
          ELSE onto

\* 1. the loop over SURFACE_FORM_PATCHES.items(); a pair is <<slug, new_forms>>
RECURSIVE patch_surface_forms(_, _, _)
patch_surface_forms(onto, index, pairs) ==
  IF pairs = <<>> THEN onto
  ELSE LET slug == Head(pairs)[1]
           new_forms == Head(pairs)[2]
       IN IF slug \in DOMAIN index
          THEN patch_surface_forms(
                 [onto EXCEPT ![index[slug]] = patch_entry(onto[index[slug]], new_forms)],
                 index, Tail(pairs))
          ELSE patch_surface_forms(onto, index, Tail(pairs))

\* 2. the body of the loop over NEW_ENTRIES; st is [ontology, slug_index]
\* variant: the entry is appended without the test raw["slug"] not in slug_index
add_new_entry_unchecked(st, raw) ==
  [ ontology   |-> Append(st.ontology, enrich_new_entry(raw)),
    slug_index |-> [k \in DOMAIN st.slug_index \cup {raw.slug} |->
                      IF k = raw.slug THEN Len(st.ontology) + 1
                      ELSE st.slug_index[k]] ]

add_new_entry(st, raw) ==
  IF raw.slug \notin DOMAIN st.slug_index
  THEN [ ontology   |-> Append(st.ontology, enrich_new_entry(raw)),
         slug_index |-> [k \in DOMAIN st.slug_index \cup {raw.slug} |->
                           IF k = raw.slug THEN Len(st.ontology) + 1
                           ELSE st.slug_index[k]] ]
  ELSE [ ontology   |-> [st.ontology EXCEPT ![st.slug_index[raw.slug]] =
                           patch_entry(st.ontology[st.slug_index[raw.slug]],
                                       raw.surfaceForms)],
         slug_index |-> st.slug_index ]

RECURSIVE add_new_entries(_, _)
add_new_entries(st, new_entries) ==
  IF new_entries = <<>> THEN st
  ELSE add_new_entries(add_new_entry(st, Head(new_entries)), Tail(new_entries))

\* 3. ontology.sort(key=lambda e: e["slug"]): a stable sort
RECURSIVE insert_by_slug(_, _)
insert_by_slug(q, e) ==
  IF q = <<>> THEN <<e>>
  ELSE IF StrLess(e.slug, Head(q).slug) THEN <<e>> \o q
  ELSE <<Head(q)>> \o insert_by_slug(Tail(q), e)

RECURSIVE sort_by_slug_loop(_, _)
sort_by_slug_loop(q, acc) ==
  IF q = <<>> THEN acc
  ELSE sort_by_slug_loop(Tail(q), insert_by_slug(acc, Head(q)))

\* variant: step 3 left out
sort_by_slug_skipped(q) == q

sort_by_slug(q) == sort_by_slug_loop(q, <<>>)

\* ------------------------------------------------------ input alphabets
str_empty == <<>>                                                              \* ""
str_Roma_Tomato == <<82, 111, 109, 97, 32, 84, 111, 109, 97, 116, 111>>        \* "Roma Tomato"
str_Tomato == <<84, 111, 109, 97, 116, 111>>                                   \* "Tomato"
str_tomatoes == <<116, 111, 109, 97, 116, 111, 101, 115>>                      \* "tomatoes"
str_ROMA_tomato_bang == <<32, 82, 79, 77, 65, 32, 32, 116, 111, 109, 97, 116, 111, 33>> \* " ROMA  tomato!"
str_Love_Apple == <<76, 111, 118, 101, 32, 65, 112, 112, 108, 101>>            \* "Love Apple"
str_Red_Tomato == <<82, 101, 100, 32, 32, 84, 111, 109, 97, 116, 111>>         \* "Red  Tomato"
str_tomato_sp == <<116, 111, 109, 97, 116, 111, 32>>                           \* "tomato "
str_12 == <<49, 50>>                                                           \* "12"
str_roma_tomato == <<114, 111, 109, 97, 45, 116, 111, 109, 97, 116, 111>>      \* "roma-tomato"
str_Tomatoes == <<84, 111, 109, 97, 116, 111, 101, 115>>                       \* "Tomatoes"
str_tomato == <<116, 111, 109, 97, 116, 111>>                                  \* "tomato"
str_Plum_Tomato == <<80, 108, 117, 109, 32, 84, 111, 109, 97, 116, 111>>       \* "Plum Tomato"
str_Garden_Tomato == <<71, 97, 114, 100, 101, 110, 32, 84, 111, 109, 97, 116, 111>> \* "Garden Tomato"
str_TOMATO == <<84, 79, 77, 65, 84, 79>>                                       \* "TOMATO"
str_roma_tomato_sp == <<114, 111, 109, 97, 32, 116, 111, 109, 97, 116, 111>>   \* "roma tomato"
str_tomato_raw_diced_raw == <<116, 111, 109, 97, 116, 111, 45, 114, 97, 119, 45, 100, 105, 99, 101, 100, 45, 114, 97, 119>> \* "tomato-raw-diced-raw"
str_Diced_Raw_Tomato == <<68, 105, 99, 101, 100, 32, 82, 97, 119, 32, 84, 111, 109, 97, 116, 111>> \* "Diced Raw Tomato"
str_diced_tomato_raw == <<100, 105, 99, 101, 100, 32, 116, 111, 109, 97, 116, 111, 44, 32, 114, 97, 119>> \* "diced tomato, raw"
str_Cherry_Tomato == <<67, 104, 101, 114, 114, 121, 32, 84, 111, 109, 97, 116, 111>> \* "Cherry Tomato"
str_cherry_tomato == <<99, 104, 101, 114, 114, 121, 32, 116, 111, 109, 97, 116, 111>> \* "cherry tomato"
str_rice == <<114, 105, 99, 101>>                                              \* "rice"
str_Rice == <<82, 105, 99, 101>>                                               \* "Rice"
str_Wild_Rice == <<87, 105, 108, 100, 32, 82, 105, 99, 101>>                   \* "Wild Rice"
str_Brown_Rice == <<66, 114, 111, 119, 110, 32, 82, 105, 99, 101>>             \* "Brown Rice"
str_sr_legacy == <<115, 114, 95, 108, 101, 103, 97, 99, 121>>                  \* "sr_legacy"
str_Rice_white == <<82, 105, 99, 101, 44, 32, 119, 104, 105, 116, 101>>        \* "Rice, white"
str_Tomato_patched == <<84, 111, 109, 97, 116, 111, 32, 40, 112, 97, 116, 99, 104, 101, 100, 41>> \* "Tomato (patched)"
str_nightshade == <<110, 105, 103, 104, 116, 115, 104, 97, 100, 101>>          \* "nightshade"
str_Tomatoes_red == <<84, 111, 109, 97, 116, 111, 101, 115, 44, 32, 114, 101, 100>> \* "Tomatoes, red"
str_tomato_raw == <<116, 111, 109, 97, 116, 111, 45, 114, 97, 119>>            \* "tomato-raw"
str_Raw_Tomato == <<82, 97, 119, 32, 84, 111, 109, 97, 116, 111>>              \* "Raw Tomato"
str_Blanched_Tomato == <<66, 108, 97, 110, 99, 104, 101, 100, 32, 84, 111, 109, 97, 116, 111>> \* "Blanched Tomato"
str_roma == <<114, 111, 109, 97>>                                              \* "roma"
str_0 == <<48>> \* "0"
str_minus_4 == <<45, 52>> \* "-4"
str_sp_7_sp == <<32, 55, 32>> \* " 7 "
str_1_5 == <<49, 46, 53>> \* "1.5"
str_Creme_Fraiche == <<67, 114, 232, 109, 101, 32, 70, 114, 97, 238, 99, 104, 101, 33>> \* "Crème Fraîche!"

\* sequences over S of length at most n
RECURSIVE SeqsUpTo(_, _)
SeqsUpTo(S, n) ==
  IF n = 0 THEN {<<>>}
  ELSE LET shorter == SeqsUpTo(S, n - 1) IN
       shorter \cup {Append(q, x) : q \in shorter, x \in S}

\* records of data/synonyms-1.json
Scenario1Record ==
  [ normalized_name |-> str_Roma_Tomato, has_canonical_name |-> TRUE,
    canonical_name |-> str_Tomato, synonyms |-> <<str_tomatoes>>,
    fdc_id |-> PyNone ]

RecordsA ==
  { Scenario1Record,
    [ normalized_name |-> str_ROMA_tomato_bang, has_canonical_name |-> FALSE,
      canonical_name |-> str_empty,
      synonyms |-> <<str_empty, str_Red_Tomato, str_tomato_sp>>,
      fdc_id |-> PyStr(str_12) ] }

\* records of data/synonyms-2.json
RecordsB ==
  { [ slug |-> str_roma_tomato, display_name |-> str_Tomatoes,
      synonym_array |-> <<str_tomato, str_Plum_Tomato>>, fdc_id |-> PyNone ],
    [ slug |-> str_roma_tomato, display_name |-> str_Garden_Tomato,
      synonym_array |-> <<str_TOMATO, str_roma_tomato_sp>>, fdc_id |-> PyInt(99) ],
    [ slug |-> str_tomato_raw_diced_raw, display_name |-> str_Diced_Raw_Tomato,
      synonym_array |-> <<str_diced_tomato_raw>>, fdc_id |-> PyInt(0) ] }

RawA == SeqsUpTo(RecordsA, MaxRecs)
RawB == SeqsUpTo(RecordsB, MaxRecs)

\* a dict literal holds every key once
DistinctKeys(pairs) ==
  \A i, j \in 1..Len(pairs) : i # j => pairs[i][1] # pairs[j][1]

Scripts == {"next100", "top200"}

\* <<slug, new_forms>> pairs that SURFACE_FORM_PATCHES of next100 may hold
PatchPairs ==
  { <<str_roma_tomato, <<str_TOMATO, str_Cherry_Tomato, str_cherry_tomato>> >>,
    <<str_rice, <<str_Wild_Rice>> >> }

\* descriptors that NEW_ENTRIES of next100 may hold
Descriptors ==
  { [ slug |-> str_rice, displayName |-> str_Rice,
      surfaceForms |-> <<str_Rice, str_rice, str_Brown_Rice>>,
      fdc |-> [fdcId |-> PyInt(169756), dataType |-> PyStr(str_sr_legacy),
               description |-> PyStr(str_Rice_white)],
      has_equivalenceClass |-> TRUE, equivalenceClass |-> str_rice ],
    [ slug |-> str_roma_tomato, displayName |-> str_Tomato_patched,
      surfaceForms |-> <<str_Cherry_Tomato, str_tomato>>,
      fdc |-> [fdcId |-> PyInt(170457), dataType |-> PyStr(str_sr_legacy),
               description |-> PyStr(str_Tomatoes_red)],
      has_equivalenceClass |-> TRUE, equivalenceClass |-> str_nightshade ] }

PatchMaps == {p \in SeqsUpTo(PatchPairs, MaxPairs) : DistinctKeys(p)}
NewEntryLists == SeqsUpTo(Descriptors, MaxNew)

\* the constants of top200
Top200Patches == << <<str_roma_tomato, <<str_Roma_Tomato>> >> >>
Top200NewEntries ==
  << [ slug |-> str_tomato_raw, displayName |-> str_Raw_Tomato,
       surfaceForms |-> <<str_Raw_Tomato, str_Blanched_Tomato>>,
       fdc |-> [fdcId |-> PyNone, dataType |-> PyNone, description |-> PyNone],
       has_equivalenceClass |-> FALSE, equivalenceClass |-> str_empty ] >>

\* ---------------------------------------------------------------- state
VARIABLES
  SURFACE_FORM_PATCHES,  \* per script: the module constant, <<slug, forms>> pairs
  NEW_ENTRIES,           \* per script: the module constant, descriptors
  file,                  \* data/ingredient-ontology.json: [exists, doc]
  run,                   \* the script being executed, or "idle"
  pc,                    \* the next statement of its main()
  raw1, raw2,            \* build load_s1(), load_s2(): the parsed input arrays
  s1, s2,                \* build main(): the two slug-keyed dicts
  merged,                \* build main(): the merged list
  ontology,              \* main(): the list of entries in memory
  slug_index,            \* patch main(): slug -> entry of ontology
  outcome,               \* how the latest run ended: "written", or the call that raised
  nbuilds,               \* number of build runs that loaded synonyms-1.json
  npatches,              \* number of patch runs that loaded the ontology
  before,                \* the file as it was before the latest write
  lastRun, prevRun       \* the scripts of the latest two writes

vars == <<SURFACE_FORM_PATCHES, NEW_ENTRIES, file, run, pc, raw1, raw2, s1, s2, merged,
          ontology, slug_index, outcome, nbuilds, npatches, before, lastRun, prevRun>>

NoFile == [exists |-> FALSE, doc |-> <<>>]
NoIndex == [k \in {} |-> 0]

Init ==
  /\ \E p \in PatchMaps :
       SURFACE_FORM_PATCHES = [next100 |-> p, top200 |-> Top200Patches]
  /\ \E ne \in NewEntryLists :
       NEW_ENTRIES = [next100 |-> ne, top200 |-> Top200NewEntries]
  /\ file = NoFile
  /\ run = "idle"
  /\ pc = "idle"
  /\ raw1 = <<>>
  /\ raw2 = <<>>
  /\ s1 = <<>>
  /\ s2 = <<>>
  /\ merged = <<>>
  /\ ontology = <<>>
  /\ slug_index = NoIndex
  /\ outcome = "none"
  /\ nbuilds = 0
  /\ npatches = 0
  /\ before = NoFile
  /\ lastRun = "none"
  /\ prevRun = "none"

config == <<SURFACE_FORM_PATCHES, NEW_ENTRIES>>
history == <<before, lastRun, prevRun>>
counters == <<nbuilds, npatches>>
locals == <<raw1, raw2, s1, s2, merged, ontology, slug_index>>

\* the process ends: its memory is gone
Exit(how) ==
  /\ outcome' = how
  /\ run' = "idle"
  /\ pc' = "idle"
  /\ raw1' = <<>>
  /\ raw2' = <<>>
  /\ s1' = <<>>
  /\ s2' = <<>>
  /\ merged' = <<>>
  /\ ontology' = <<>>
  /\ slug_index' = NoIndex

\* ------------------------------------------- build-ingredient-ontology
\* s1 = load_s1()
BuildLoadS1 ==
  /\ run = "idle"
  /\ nbuilds < MaxBuilds
  /\ \E raw \in RawA : raw1' = raw /\ s1' = load_s1(raw)
  /\ run' = "build"
  /\ outcome' = "running"
  /\ pc' = "load_s2"
  /\ nbuilds' = nbuilds + 1
  /\ UNCHANGED <<config, file, history, raw2, s2, merged, ontology, slug_index, npatches>>

\* S1_PATH.read_text / json.loads raises: the run aborts
BuildLoadS1Fail ==
  /\ run = "idle"
  /\ nbuilds < MaxBuilds
  /\ outcome' = "load_s1 raised"
  /\ UNCHANGED <<config, file, history, run, pc, locals, counters>>

\* s2 = load_s2()
BuildLoadS2 ==
  /\ run = "build"
  /\ pc = "load_s2"
  /\ \E raw \in RawB : raw2' = raw /\ s2' = load_s2(raw)
  /\ pc' = "merge"
  /\ UNCHANGED <<config, file, history, run, raw1, s1, merged, ontology, slug_index, outcome, counters>>

\* variant: the output is opened for writing before the inputs are loaded, so
\* a run that aborts leaves it empty
BuildLoadS2Fail_truncating ==
  /\ run = "build"
  /\ pc = "load_s2"
  /\ file' = [exists |-> TRUE, doc |-> <<>>]
  /\ Exit("load_s2 raised")
  /\ UNCHANGED <<config, history, counters>>

\* S2_PATH.read_text / json.loads raises: the run aborts
BuildLoadS2Fail ==
  /\ run = "build"
  /\ pc = "load_s2"
  /\ Exit("load_s2 raised")
  /\ UNCHANGED <<config, file, history, counters>>

\* merged = merge_entries(s1, s2)
BuildMerge ==
  /\ run = "build"
  /\ pc = "merge"
  /\ merged' = merge_entries(s1, s2)
  /\ pc' = "enrich"
  /\ UNCHANGED <<config, file, history, run, raw1, raw2, s1, s2, ontology, slug_index, outcome, counters>>

\* ontology = [enrich_entry(e) for e in merged]
BuildEnrich ==
  /\ run = "build"
  /\ pc = "enrich"
  /\ ontology' = enrich_all(merged)
  /\ pc' = "write"
  /\ UNCHANGED <<config, file, history, run, raw1, raw2, s1, s2, merged, slug_index, outcome, counters>>

\* OUTPUT_PATH.write_text(json.dumps(ontology)); the document of str, int,
\* None, list and dict values is what json.loads gives back
BuildWrite ==
  /\ run = "build"
  /\ pc = "write"
  /\ file' = [exists |-> TRUE, doc |-> ontology]
  /\ before' = file
  /\ prevRun' = lastRun
  /\ lastRun' = "build"
  /\ Exit("written")
  /\ UNCHANGED <<config, counters>>

\* ------------------------------------- patch-ontology-{next100,top200}
\* ontology = json.loads(ONTOLOGY_PATH.read_text()); slug_index = {...}
PatchRead(sc) ==
  /\ run = "idle"
  /\ npatches < MaxPatches
  /\ file.exists
  /\ ontology' = file.doc
  /\ slug_index' = build_slug_index(file.doc)
  /\ run' = sc
  /\ pc' = "surface_forms"
  /\ outcome' = "running"
  /\ npatches' = npatches + 1
  /\ UNCHANGED <<config, file, history, raw1, raw2, s1, s2, merged, nbuilds>>

\* ONTOLOGY_PATH.read_text raises FileNotFoundError: the run aborts
PatchReadFail(sc) ==
  /\ run = "idle"
  /\ npatches < MaxPatches
  /\ ~file.exists
  /\ outcome' = "read_text raised"
  /\ UNCHANGED <<config, file, history, run, pc, locals, counters>>

\* 1. Patch surface forms onto existing entries
PatchSurfaceForms(sc) ==
  /\ run = sc
  /\ pc = "surface_forms"
  /\ ontology' = patch_surface_forms(ontology, slug_index, SURFACE_FORM_PATCHES[sc])
  /\ pc' = "new_entries"
  /\ UNCHANGED <<config, file, history, run, raw1, raw2, s1, s2, merged, slug_index, outcome, counters>>

\* 2. Add new entries
PatchNewEntries(sc) ==
  /\ run = sc
  /\ pc = "new_entries"
  /\ LET st == add_new_entries([ontology |-> ontology, slug_index |-> slug_index],
                               NEW_ENTRIES[sc])
     IN /\ ontology' = st.ontology
        /\ slug_index' = st.slug_index
  /\ pc' = "write"
  /\ UNCHANGED <<config, file, history, run, raw1, raw2, s1, s2, merged, outcome, counters>>

\* 3. Sort by slug, 4. stats, ONTOLOGY_PATH.write_text(json.dumps(ontology))
PatchSortWrite(sc) ==
  /\ run = sc
  /\ pc = "write"
  /\ file' = [exists |-> TRUE, doc |-> sort_by_slug(ontology)]
  /\ before' = file
  /\ prevRun' = lastRun
  /\ lastRun' = sc
  /\ Exit("written")
  /\ UNCHANGED <<config, counters>>

\* build-ingredient-ontology.py
BuildNext ==
  \/ BuildLoadS1
  \/ BuildLoadS1Fail
  \/ BuildLoadS2
  \/ BuildLoadS2Fail
  \/ BuildMerge
  \/ BuildEnrich
  \/ BuildWrite

\* patch-ontology-next100.py, patch-ontology-top200.py
PatchNext ==
  \/ \E sc \in Scripts : PatchRead(sc)
  \/ \E sc \in Scripts : PatchReadFail(sc)
  \/ \E sc \in Scripts : PatchSurfaceForms(sc)
  \/ \E sc \in Scripts : PatchNewEntries(sc)
  \/ \E sc \in Scripts : PatchSortWrite(sc)

Next == BuildNext \/ PatchNext

\* the three scripts, run one after another in any order
Spec == Init /\ [][Next]_vars

\* the build script alone (the patch constants play no part in it)
InitBuild ==
  /\ Init
  /\ SURFACE_FORM_PATCHES["next100"] = <<>>
  /\ NEW_ENTRIES["next100"] = <<>>

BuildSpec == InitBuild /\ [][BuildNext]_vars

\* the documents a build run writes
BuildOutputs ==
  {enrich_all(merge_entries(load_s1(a), load_s2(b))) : a \in RawA, b \in RawB}

\* the patch scripts alone, started on no file or on a file a build has written
InitPatch ==
  /\ \E p \in PatchMaps :
       SURFACE_FORM_PATCHES = [next100 |-> p, top200 |-> Top200Patches]
  /\ \E ne \in NewEntryLists :
       NEW_ENTRIES = [next100 |-> ne, top200 |-> Top200NewEntries]
  /\ \/ /\ file = NoFile
        /\ outcome = "none"
        /\ nbuilds = 0
        /\ lastRun = "none"
     \/ /\ \E doc \in BuildOutputs : file = [exists |-> TRUE, doc |-> doc]
        /\ outcome = "written"
        /\ nbuilds = 1
        /\ lastRun = "build"
  /\ run = "idle"
  /\ pc = "idle"
  /\ raw1 = <<>>
  /\ raw2 = <<>>
  /\ s1 = <<>>
  /\ s2 = <<>>
  /\ merged = <<>>
  /\ ontology = <<>>
  /\ slug_index = NoIndex
  /\ npatches = 0
  /\ before = NoFile
  /\ prevRun = "none"

PatchSpec == InitPatch /\ [][PatchNext]_vars

\* ----------------------------------------------- one build over short texts
\* the code points the short texts are made of: "A", "b", "1", " ", U+00A0,
\* "-", "!", U+00E8
Alphabet == {65, 98, 49, 32, 160, 45, 33, 232}
Texts == SeqsUpTo(Alphabet, MaxLen) \cup {str_Creme_Fraiche}

\* values of the key fdc_id: null or absent, int, str, bool, and a float, list
\* or dict
FdcValues ==
  { PyNone, PyInt(7), PyInt(0), PyInt(0 - 3), PyBool(TRUE), PyBool(FALSE), PyOther,
    PyStr(str_12), PyStr(str_0), PyStr(str_minus_4), PyStr(str_sp_7_sp),
    PyStr(str_1_5), PyStr(str_Tomato), PyStr(str_empty) }

\* data/synonyms-1.json holding one record: one that has a normalized_name
\* only, one of RecordsA, or one with a value of FdcValues as its fdc_id
TextArraysA ==
  { << [ normalized_name |-> t, has_canonical_name |-> FALSE,
         canonical_name |-> str_empty, synonyms |-> <<>>, fdc_id |-> PyNone ] >> :
      t \in Texts }
    \cup {<<r>> : r \in RecordsA}
    \cup { << [ normalized_name |-> str_Tomato, has_canonical_name |-> FALSE,
                canonical_name |-> str_empty, synonyms |-> <<>>, fdc_id |-> v ] >> :
             v \in FdcValues }

\* data/synonyms-2.json holding []
TextArraysB == {<<>>}

\* s1 = load_s1()
TextLoadS1 ==
  /\ run = "idle"
  /\ nbuilds = 0
  /\ \E raw \in TextArraysA : raw1' = raw /\ s1' = load_s1(raw)
  /\ run' = "build"
  /\ outcome' = "running"
  /\ pc' = "load_s2"
  /\ nbuilds' = nbuilds + 1
  /\ UNCHANGED <<config, file, history, raw2, s2, merged, ontology, slug_index, npatches>>

\* s2 = load_s2()
TextLoadS2 ==
  /\ run = "build"
  /\ pc = "load_s2"
  /\ \E raw \in TextArraysB : raw2' = raw /\ s2' = load_s2(raw)
  /\ pc' = "merge"
  /\ UNCHANGED <<config, file, history, run, raw1, s1, merged, ontology, slug_index, outcome, counters>>

TextNext ==
  \/ TextLoadS1
  \/ BuildLoadS1Fail
  \/ TextLoadS2
  \/ BuildLoadS2Fail
  \/ BuildMerge
  \/ BuildEnrich
  \/ BuildWrite

TextSpec == InitBuild /\ [][TextNext]_vars

\* ---------------------------------------------------------- properties
Range(q) == {q[i] : i \in 1..Len(q)}
Slugs(doc) == {doc[i].slug : i \in 1..Len(doc)}
Lookup(doc, slug) == doc[CHOOSE i \in 1..Len(doc) : doc[i].slug = slug]
UniqueSlugs(doc) ==
  \A i, j \in 1..Len(doc) : i # j => doc[i].slug # doc[j].slug
CIEqual(a, b) == lower(a) = lower(b)
CIUnique(forms) ==
  \A i, j \in 1..Len(forms) : i # j => ~CIEqual(forms[i], forms[j])
IsPrefix(p, q) == Len(p) <= Len(q) /\ SubSeq(q, 1, Len(p)) = p
Min(S) == CHOOSE x \in S : \A y \in S : x <= y

\* the subsequence of q at the indices I, in ascending order
RECURSIVE SubseqAt(_, _)
SubseqAt(q, I) ==
  IF I = {} THEN <<>>
  ELSE <<q[Min(I)]>> \o SubseqAt(q, I \ {Min(I)})

RECURSIVE Concat(_)
Concat(qs) == IF qs = <<>> THEN <<>> ELSE Head(qs) \o Concat(Tail(qs))

\* build main() has computed merged / ontology
Merged == run = "build" /\ pc \in {"enrich", "write"}
Enriched == run = "build" /\ pc = "write"
\* the latest write was a patch run's: before is what it read, file what it wrote
Patched == lastRun \in Scripts

\* the candidate forms a script holds for a slug: those of its
\* SURFACE_FORM_PATCHES pair, then those of its NEW_ENTRIES descriptors, in order
PairForms(sc, slug) ==
  LET Named(p) == p[1] = slug
      sel == SelectSeq(SURFACE_FORM_PATCHES[sc], Named)
  IN Concat([i \in 1..Len(sel) |-> sel[i][2]])
DescriptorForms(sc, slug) ==
  LET Named(d) == d.slug = slug
      sel == SelectSeq(NEW_ENTRIES[sc], Named)
  IN Concat([i \in 1..Len(sel) |-> sel[i].surfaceForms])
Candidates(sc, slug) == PairForms(sc, slug) \o DescriptorForms(sc, slug)

\* C1: applying the same patch a second time changes nothing: when the latest
\* two writes are by the same patch script, the second left the file as it was.
C1_Idempotent ==
  (Patched /\ prevRun = lastRun) => file = before

\* C2: the merge output has exactly one entry per slug of the union of both
\* sources, and no two entries of a written file share a slug.
C2_SlugUnique ==
  /\ Merged => /\ UniqueSlugs(merged)
               /\ Slugs(merged) = dict_keys(s1) \cup dict_keys(s2)
  /\ file.exists => UniqueSlugs(file.doc)

\* C2 witness: a patch run has written after its NEW_ENTRIES named twice a
\* slug that the file it read did not have.
C2_Witness ==
  /\ lastRun = "next100"
  /\ \E i, j \in 1..Len(NEW_ENTRIES["next100"]) :
       /\ i < j
       /\ NEW_ENTRIES["next100"][i].slug = NEW_ENTRIES["next100"][j].slug
       /\ NEW_ENTRIES["next100"][i].slug \notin Slugs(before.doc)
       /\ NEW_ENTRIES["next100"][i].slug \in Slugs(file.doc)

\* C3: in every written file, no two surfaceForms of one entry are
\* case-insensitively equal.
C3_SurfaceFormsUnique ==
  file.exists => \A i \in 1..Len(file.doc) : CIUnique(file.doc[i].surfaceForms)

\* the listed suffixes a string ends with, by position in the list
Matching(s) == {i \in 1..Len(suffixes) : endswith(s, suffixes[i])}
Without(s, i) == SubSeq(s, 1, Len(s) - Len(suffixes[i]))
StripFirstSuffix(s) ==
  IF Matching(s) = {} THEN s ELSE Without(s, Min(Matching(s)))

OnePass(slug, eq) ==
  IF Matching(slug) = {} THEN eq = slug
  ELSE LET k1 == Min(Matching(slug))
           r1 == Without(slug, k1)
           L1 == {j \in Matching(r1) : j > k1}
       IN IF L1 = {} THEN eq = r1
          ELSE LET k2 == Min(L1)
                   r2 == Without(r1, k2)
                   L2 == {j \in Matching(r2) : j > k2}
               IN IF L2 = {} THEN eq = r2
                  ELSE IsPrefix(eq, r2) /\ eq # r2

Scenario1 ==
  /\ Enriched
  /\ raw1 = <<Scenario1Record>>
  /\ \A i \in 1..Len(raw2) : raw2[i].slug \notin {str_tomato, str_roma_tomato}

Scenario1Entry(slug) ==
  \E i \in 1..Len(ontology) :
    /\ ontology[i].slug = slug
    /\ ontology[i].displayName = str_Tomato
    /\ ontology[i].surfaceForms = <<str_Tomato, str_Roma_Tomato, str_tomatoes>>
    /\ {str_tomato, str_tomatoes, str_roma} \subseteq Range(ontology[i].tokens)

\* C5 as claimed: Scenario 1 yields the entry with slug "tomato".
C5_Scenario1_SlugTomato ==
  Scenario1 => Scenario1Entry(str_tomato)

\* C5 amended: Scenario 1 yields an entry with slug "roma-tomato" (the slug of
\* normalizedName), displayName "Tomato", surfaceForms exactly
\* ["Tomato", "Roma Tomato", "tomatoes"], tokens with "tomato", "tomatoes", "roma".
C5_Scenario1 ==
  Scenario1 => Scenario1Entry(str_roma_tomato)

\* C5 witness: Scenario 1 has been built next to an unrelated Source B record.
C5_Witness ==
  Scenario1 /\ raw2 # <<>>

\* C6: for a slug of both sources the merged displayName is source B's and the
\* merged id is B's when B has one, else A's; for a slug of one source the
\* merged displayName, id and surfaceForms are that source's.
C6_MergePriority ==
  Merged =>
    \A slug \in dict_keys(s1) \cup dict_keys(s2) :
      /\ slug \in Slugs(merged)
      /\ LET m == Lookup(merged, slug) IN
         IF slug \in dict_keys(s1) /\ slug \in dict_keys(s2)
         THEN LET e1 == Lookup(s1, slug)
                  e2 == Lookup(s2, slug)
              IN /\ m.displayName = e2.displayName
                 /\ m.fdcId = (IF e2.fdcId # PyNone THEN e2.fdcId ELSE e1.fdcId)
         ELSE LET e == IF slug \in dict_keys(s2) THEN Lookup(s2, slug)
                       ELSE Lookup(s1, slug)
              IN /\ m.displayName = e.displayName
                 /\ m.fdcId = e.fdcId
                 /\ m.surfaceForms = e.surfaceForms

\* C6 witness: a slug of both sources with different displayNames has been
\* merged where B has no id and A has one.
C6_Witness ==
  /\ Merged
  /\ \E slug \in dict_keys(s1) \cap dict_keys(s2) :
       /\ Lookup(s1, slug).displayName # Lookup(s2, slug).displayName
       /\ Lookup(s2, slug).fdcId = PyNone
       /\ Lookup(s1, slug).fdcId # PyNone
       /\ Lookup(merged, slug).fdcId = Lookup(s1, slug).fdcId

\* the first occurrence of each case-insensitively distinct item that is not
\* blank, as written and in order
FirstOccurrences(items) ==
  SubseqAt(items,
    {i \in 1..Len(items) :
       /\ strip(items[i]) # <<>>
       /\ \A j \in 1..(i - 1) : ~CIEqual(items[j], items[i])})

\* C7: for a slug of both sources the merged surfaceForms are the first
\* occurrences in B's forms followed by A's forms: all of B's come first, and
\* every form of either source has a case-insensitive equal in the result.
C7_MergedForms ==
  Merged =>
    \A slug \in dict_keys(s1) \cap dict_keys(s2) :
      LET e1 == Lookup(s1, slug)
          e2 == Lookup(s2, slug)
          m  == Lookup(merged, slug)
      IN /\ m.surfaceForms = FirstOccurrences(e2.surfaceForms \o e1.surfaceForms)
         /\ IsPrefix(e2.surfaceForms, m.surfaceForms)
         /\ \A f \in Range(e1.surfaceForms) \cup Range(e2.surfaceForms) :
              \E g \in Range(m.surfaceForms) : CIEqual(f, g)

\* C7 witness: a merged slug of both sources where a form of A differing only
\* in case from a form of B was dropped and another form of A was kept.
C7_Witness ==
  /\ Merged
  /\ \E slug \in dict_keys(s1) \cap dict_keys(s2) :
       LET e1 == Lookup(s1, slug)
           e2 == Lookup(s2, slug)
           m  == Lookup(merged, slug)
       IN /\ \E f \in Range(e1.surfaceForms) :
               /\ f \notin Range(m.surfaceForms)
               /\ \E g \in Range(e2.surfaceForms) : CIEqual(f, g) /\ f # g
          /\ \E f \in Range(e1.surfaceForms) :
               f \in Range(m.surfaceForms) /\ f \notin Range(e2.surfaceForms)

\* C8: a patch run changes no field other than surfaceForms of an entry of the
\* file it read.
C8_FieldFreeze ==
  Patched =>
    \A i \in 1..Len(before.doc) :
      LET e == before.doc[i] IN
      /\ e.slug \in Slugs(file.doc)
      /\ [Lookup(file.doc, e.slug) EXCEPT !.surfaceForms = e.surfaceForms] = e

\* C8 witness: a patch run has written after a NEW_ENTRIES descriptor named an
\* existing slug with another displayName, and that entry's surfaceForms grew.
C8_Witness ==
  /\ lastRun = "next100"
  /\ \E k \in 1..Len(NEW_ENTRIES["next100"]) :
       LET d == NEW_ENTRIES["next100"][k] IN
       /\ d.slug \in Slugs(before.doc)
       /\ d.displayName # Lookup(before.doc, d.slug).displayName
       /\ d.equivalenceClass # Lookup(before.doc, d.slug).equivalenceClass
       /\ d.fdc # Lookup(before.doc, d.slug).fdc
       /\ Lookup(file.doc, d.slug).surfaceForms
            # Lookup(before.doc, d.slug).surfaceForms

\* the candidates that are case-insensitively equal neither to a prior form
\* nor to an earlier candidate
Appended(prior, cands) ==
  SubseqAt(cands,
    {i \in 1..Len(cands) :
       /\ \A k \in 1..Len(prior) : ~CIEqual(prior[k], cands[i])
       /\ \A j \in 1..(i - 1) : ~CIEqual(cands[j], cands[i])})

\* C9: every entry of the file a patch run read is in the file it wrote, its
\* surfaceForms being the prior ones followed by the candidates not
\* case-insensitively equal to a prior form or to an earlier candidate.
C9_AppendOnly ==
  Patched =>
    \A i \in 1..Len(before.doc) :
      LET e == before.doc[i] IN
      /\ e.slug \in Slugs(file.doc)
      /\ Lookup(file.doc, e.slug).surfaceForms
           = e.surfaceForms \o Appended(e.surfaceForms, Candidates(lastRun, e.slug))

\* C9 witness: a patch run has written where one candidate differing only in
\* case from a prior form was not added and another candidate was appended.
C9_Witness ==
  /\ Patched
  /\ \E i \in 1..Len(before.doc) :
       LET e     == before.doc[i]
           cands == Candidates(lastRun, e.slug)
           after == Lookup(file.doc, e.slug).surfaceForms
       IN /\ \E c \in Range(cands) :
               /\ c \notin Range(after)
               /\ \E f \in Range(e.surfaceForms) : CIEqual(f, c) /\ f # c
          /\ Len(after) > Len(e.surfaceForms)

NonDescending(doc) ==
  \A i \in 1..(Len(doc) - 1) : ~StrLess(doc[i + 1].slug, doc[i].slug)

\* the orders in which the keys of a dict may have been inserted
Reorderings(d) ==
  {[i \in 1..Len(d) |-> d[f[i]]] :
     f \in {g \in [1..Len(d) -> 1..Len(d)] :
              \A a, b \in 1..Len(d) : a # b => g[a] # g[b]}}

\* C10: the merge output and every written file are in ascending slug order,
\* and the merge output is the same for every insertion order of the two dicts.
C10_Ordered ==
  /\ Merged => /\ NonDescending(merged)
               /\ \A p1 \in Reorderings(s1), p2 \in Reorderings(s2) :
                    merge_entries(p1, p2) = merged
  /\ file.exists => NonDescending(file.doc)

\* C10 witness: a patch run has written a file in which an entry it added
\* stands before an entry of the file it read.
C10_Witness ==
  /\ Patched
  /\ \E i, j \in 1..Len(file.doc) :
       /\ i < j
       /\ file.doc[i].slug \notin Slugs(before.doc)
       /\ file.doc[j].slug \in Slugs(before.doc)

\* a patch run stands between its step 1 and its step 2: file is what it read
AfterSurfaceFormStep == run \in Scripts /\ pc = "new_entries"

\* C11: a SURFACE_FORM_PATCHES pair whose slug the file read does not have is
\* skipped: after step 1 the list has the entries read and no other, each with
\* the forms of its own pair appended, and the run goes on to apply NEW_ENTRIES
\* and to write: every descriptor's slug and forms are in the file written.
C11_UnknownSlugSkipped ==
  /\ AfterSurfaceFormStep =>
       /\ Len(ontology) = Len(file.doc)
       /\ \A i \in 1..Len(file.doc) :
            LET e == file.doc[i] IN
            ontology[i] = [e EXCEPT !.surfaceForms =
                             e.surfaceForms
                               \o Appended(e.surfaceForms, PairForms(run, e.slug))]
  /\ (Patched /\ run = "idle") =>
       /\ outcome = "written"
       /\ \A k \in 1..Len(NEW_ENTRIES[lastRun]) :
            LET d == NEW_ENTRIES[lastRun][k] IN
            /\ d.slug \in Slugs(file.doc)
            /\ \A f \in Range(d.surfaceForms) :
                 \E g \in Range(Lookup(file.doc, d.slug).surfaceForms) : CIEqual(f, g)
       /\ \A j \in 1..Len(SURFACE_FORM_PATCHES[lastRun]) :
            LET pr == SURFACE_FORM_PATCHES[lastRun][j] IN
            pr[1] \in Slugs(before.doc) =>
              \A f \in Range(pr[2]) :
                \E g \in Range(Lookup(file.doc, pr[1]).surfaceForms) : CIEqual(f, g)

\* C11 witness: a run has written whose first pair named a slug the file read
\* did not have, whose later pair made the forms of an entry grow, and whose
\* NEW_ENTRIES added an entry.
C11_Witness ==
  /\ lastRun = "next100"
  /\ outcome = "written"
  /\ \E i, j \in 1..Len(SURFACE_FORM_PATCHES["next100"]) :
       LET skipped == SURFACE_FORM_PATCHES["next100"][i][1]
           applied == SURFACE_FORM_PATCHES["next100"][j][1]
       IN /\ i < j
          /\ skipped \notin Slugs(before.doc)
          /\ applied \in Slugs(before.doc)
          /\ Len(Lookup(file.doc, applied).surfaceForms)
               > Len(Lookup(before.doc, applied).surfaceForms)
  /\ Len(file.doc) > Len(before.doc)

IsSlugChar(c) == (c >= 97 /\ c <= 122) \/ (c >= 48 /\ c <= 57) \/ c = 45

WellFormedSlug(s) ==
  /\ \A i \in 1..Len(s) : IsSlugChar(s[i])
  /\ s # <<>> => s[1] # 45 /\ s[Len(s)] # 45
  /\ \A i \in 1..(Len(s) - 1) : ~(s[i] = 45 /\ s[i + 1] = 45)

\* the letters and digits of the lowercased text in order: what a slug keeps
\* besides its hyphens
KeptChars(text) == SelectSeq(lower(text), IsAlnum)
NoHyphens(s) == SelectSeq(s, LAMBDA c : c # 45)

\* C12: for every text loaded, the slug holds only lowercase ASCII letters,
\* digits and hyphens, no hyphen at either end and no two hyphens in a row; its
\* letters and digits are those of the lowercased text, every other character
\* having been deleted or turned into a hyphen; "Crème Fraîche!" (Scenario 4)
\* gives "crme-frache".
C12_SlugifyWellFormed ==
  (run = "build" /\ pc # "idle") =>
    \A i \in 1..Len(raw1) :
      LET text == raw1[i].normalized_name
          slug == slugify(text)
      IN /\ slug \in dict_keys(s1)
         /\ WellFormedSlug(slug)
         /\ NoHyphens(slug) = KeptChars(text)
         /\ text = str_Creme_Fraiche =>
              slug = <<99, 114, 109, 101, 45, 102, 114, 97, 99, 104, 101>>

\* C12 witness: a text with an upper-case letter, a character outside
\* [a-z0-9\s-], and white space next to a hyphen has been loaded, and its slug
\* has one hyphen inside.
C12_Witness ==
  /\ run = "build"
  /\ \E i \in 1..Len(raw1) :
       LET text == raw1[i].normalized_name
           slug == dict_get(s1, slugify(text)).slug
       IN /\ \E k \in 1..Len(text) : text[k] = 65
          /\ \E k \in 1..(Len(text) - 1) : IsSpace(text[k]) /\ text[k + 1] = 45
          /\ Len(slug) = 3
          /\ slug[2] = 45

\* the pieces str.split() gives: the maximal runs of characters of s that are
\* not white space
Pieces(s) ==
  {SubSeq(s, ab[1], ab[2]) : ab \in
     {ab \in (1..Len(s)) \X (1..Len(s)) :
        /\ ab[1] <= ab[2]
        /\ \A k \in ab[1]..ab[2] : ~IsSpace(s[k])
        /\ ab[1] = 1 \/ IsSpace(s[ab[1] - 1])
        /\ ab[2] = Len(s) \/ IsSpace(s[ab[2] + 1])}}

LetterOrDigit(c) == (c >= 97 /\ c <= 122) \/ (c >= 48 /\ c <= 57)

\* the lowercased pieces of the forms, without their characters outside
\* [a-z0-9], of length 2 or more
ExpectedTokens(forms) ==
  {tok \in {SelectSeq(p, LetterOrDigit) :
              p \in UNION {Pieces(lower(forms[i])) : i \in 1..Len(forms)}} :
     Len(tok) >= 2}

StrictlyAscending(q) == \A i \in 1..(Len(q) - 1) : StrLess(q[i], q[i + 1])

\* C13: the tokens of every enriched entry are, in ascending order and each
\* once, the lowercased white-space separated pieces of its surfaceForms with
\* the characters outside [a-z0-9] deleted, those shorter than 2 left out.
C13_Tokens ==
  Enriched =>
    \A i \in 1..Len(ontology) :
      /\ StrictlyAscending(ontology[i].tokens)
      /\ Range(ontology[i].tokens) = ExpectedTokens(ontology[i].surfaceForms)

\* C13 witness: an enriched entry with two or more tokens, one of which is a
\* piece that lost a character.
C13_Witness ==
  /\ Enriched
  /\ \E i \in 1..Len(ontology) :
       LET e == ontology[i]
           pieces == UNION {Pieces(lower(e.surfaceForms[k])) :
                              k \in 1..Len(e.surfaceForms)}
       IN /\ Len(e.tokens) >= 2
          /\ \E tok \in Range(e.tokens) : tok \notin pieces

\* the record the Enricher is given when it is run on an entry again
AsRaw(e) ==
  [ slug |-> e.slug, displayName |-> e.displayName,
    surfaceForms |-> e.surfaceForms, fdcId |-> e.fdc.fdcId ]

Raised == {"load_s1 raised", "load_s2 raised", "read_text raised"}

\* what a patch run makes of the document it read
PatchTransform(sc, doc) ==
  LET index == build_slug_index(doc)
      step1 == patch_surface_forms(doc, index, SURFACE_FORM_PATCHES[sc])
      step2 == add_new_entries([ontology |-> step1, slug_index |-> index],
                               NEW_ENTRIES[sc])
  IN sort_by_slug(step2.ontology)

\* C15: the output file changes only in the last step of a run, after both
\* inputs of a build were loaded and merged and enriched, or after a patch run
\* applied both of its steps to the file it read, and then to the whole result;
\* a step in which a read raises leaves the file as it was.
C15_AllOrNothing ==
  [][ /\ file' # file =>
           /\ pc = "write"
           /\ run' = "idle"
           /\ outcome' = "written"
           /\ file'.exists
           /\ run = "build" =>
                /\ s1 = load_s1(raw1)
                /\ s2 = load_s2(raw2)
                /\ file'.doc = enrich_all(merge_entries(s1, s2))
           /\ run \in Scripts => file'.doc = PatchTransform(run, file.doc)
      /\ outcome' \in Raised => file' = file
    ]_vars

\* C15 witness: a build run aborted when loading its second input, and there
\* is no output file.
C15_Witness ==
  /\ outcome = "load_s2 raised"
  /\ run = "idle"
  /\ nbuilds > 0
  /\ file = NoFile

\* C16: the id loaded for a record is the integer when fdc_id is an integer
\* above 0 or a string that parses as one, and None for every other value, a
\* value of another type included.
C16_NormalizeId ==
  (run = "build" /\ pc # "idle") =>
    \A i \in 1..Len(raw1) :
      LET v   == raw1[i].fdc_id
          got == Lookup(s1, slugify(raw1[i].normalized_name)).fdcId
      IN (\A j \in (i + 1)..Len(raw1) :
            slugify(raw1[j].normalized_name) # slugify(raw1[i].normalized_name)) =>
         got = IF v.t = "int" /\ v.n > 0 THEN PyInt(v.n)
               ELSE IF v.t = "str" /\ int_of_str(v.s).ok /\ int_of_str(v.s).n > 0
               THEN PyInt(int_of_str(v.s).n)
               ELSE PyNone

\* the first descriptor of a script's NEW_ENTRIES that names the slug
FirstDescriptor(sc, slug) ==
  LET Named(d) == d.slug = slug IN Head(SelectSeq(NEW_ENTRIES[sc], Named))

\* C17: an entry a patch run inserted for a slug the file read did not have
\* has the tokens and modifiers that the build's derive_tokens and
\* derive_modifiers give for the descriptor's surfaceForms, the equivalence
\* class that slug_to_equivalence_class gives for its slug, and empty stubs.
C17_NewEntryEnriched ==
  Patched =>
    \A i \in 1..Len(file.doc) :
      LET e == file.doc[i] IN
      e.slug \notin Slugs(before.doc) =>
        LET d == FirstDescriptor(lastRun, e.slug) IN
        /\ e.tokens = derive_tokens(d.surfaceForms)
        /\ e.modifiers = derive_modifiers(derive_tokens(d.surfaceForms))
        /\ e.equivalenceClass = slug_to_equivalence_class(e.slug)
        /\ e.taxonomy = EmptyTaxonomy
        /\ e.substitutions = <<>>
        /\ e.aliases = <<>>

\* C18: when the latest two writes were by one patch script, a third run of
\* that script writes the file it read: the second application is a fixed
\* point.
C18_FixedPoint ==
  [][ (run \in Scripts /\ pc = "write" /\ lastRun = run /\ prevRun = run)
        => file' = file ]_vars

\* C18 witness: next100 has run three times on a base without "rice"; its
\* first run inserted "rice", its second appended the form its own pair holds
\* for "rice", and its third left the file as it was.
C18_Witness ==
  /\ npatches = 3
  /\ run = "idle"
  /\ lastRun = "next100"
  /\ prevRun = "next100"
  /\ file = before
  /\ str_rice \in Slugs(file.doc)
  /\ str_Wild_Rice \in Range(Lookup(file.doc, str_rice).surfaceForms)
  /\ str_Wild_Rice \notin Range(DescriptorForms("next100", str_rice))

\* the position of the last record of raw whose slug is the given one
LastWith(raw, SlugOf(_), slug) ==
  CHOOSE k \in 1..Len(raw) :
    /\ SlugOf(raw[k]) = slug
    /\ \A j \in (k + 1)..Len(raw) : SlugOf(raw[j]) # slug

SlugA(item) == slugify(item.normalized_name)
SlugB(item) == item.slug
DisplayA(item) ==
  IF item.has_canonical_name THEN item.canonical_name ELSE item.normalized_name
Stripped(forms) == {strip(forms[i]) : i \in 1..Len(forms)}

\* C19: each of the two dicts has one entry per slug of its source's records,
\* and the entry holds the displayName, id and surface forms of the last
\* record with that slug and no form of an earlier one.
C19_LaterRecordWins ==
  /\ (run = "build" /\ pc # "idle") =>
       /\ dict_keys(s1) = {SlugA(raw1[i]) : i \in 1..Len(raw1)}
       /\ \A slug \in dict_keys(s1) :
            LET item == raw1[LastWith(raw1, SlugA, slug)]
                e    == Lookup(s1, slug)
            IN /\ e.displayName = DisplayA(item)
               /\ e.fdcId = normalize_fdc_id(item.fdc_id)
               /\ Range(e.surfaceForms) \subseteq
                    Stripped(<<DisplayA(item), item.normalized_name>> \o item.synonyms)
               /\ e = load_s1_item(item)
  /\ (run = "build" /\ pc \in {"merge", "enrich", "write"}) =>
       /\ dict_keys(s2) = {SlugB(raw2[i]) : i \in 1..Len(raw2)}
       /\ \A slug \in dict_keys(s2) :
            LET item == raw2[LastWith(raw2, SlugB, slug)]
                e    == Lookup(s2, slug)
            IN /\ e.displayName = item.display_name
               /\ e.fdcId = normalize_fdc_id(item.fdc_id)
               /\ Range(e.surfaceForms) \subseteq
                    Stripped(<<item.display_name>> \o item.synonym_array)
               /\ e = load_s2_item(item)

\* C19 witness: both sources held two records of one slug with different
\* display names, and a surface form of the earlier record of each is in
\* neither dict.
C19_Witness ==
  /\ run = "build"
  /\ pc = "merge"
  /\ Len(raw1) = 2 /\ SlugA(raw1[1]) = SlugA(raw1[2])
  /\ DisplayA(raw1[1]) # DisplayA(raw1[2])
  /\ \E f \in Stripped(raw1[1].synonyms) :
       f # <<>> /\ f \notin Range(Lookup(s1, SlugA(raw1[1])).surfaceForms)
  /\ Len(raw2) = 2 /\ raw2[1].slug = raw2[2].slug
  /\ raw2[1].display_name # raw2[2].display_name
  /\ \E f \in Range(raw2[1].synonym_array) :
       f \notin Range(Lookup(s2, raw2[1].slug).surfaceForms)

====
